---- MODULE Spec2Model ----
(***************************************************************************)
(* bevy_ambient_cg: resolution negotiation, channel path construction,     *)
(* roughness/metalness packing and material assembly of                    *)
(* AmbientCGMaterial::load*, modelled from src/src/lib.rs.                   *)
(*                                                                         *)
(* Strings and paths are sequences of one-character strings, so that       *)
(* format!, PathBuf::push/join and Path::with_extension are computed the   *)
(* way the code computes them.                                             *)
(***************************************************************************)
EXTENDS Integers, Sequences, FiniteSets, TLC

VARIABLES
    MATERIALS_PATH,          \* static MATERIALS_PATH (its String)
    RESOLUTION_NEGOTIATION,  \* static RESOLUTION_NEGOTIATION (its bool)
    app_config,              \* the AmbientCGConfig resource of the App
    fs,                      \* what is on disk under <base>/assets
    desc,                    \* the application's AmbientCGMaterial constant
    materials,               \* Assets<StandardMaterial>: the host registry
    images,                  \* images registered through AssetServer::add
    requests,                \* AssetServer::load_with_settings calls made
    last,                    \* the last load call: entry, outcome, events
    pc,                      \* per thread: its position in its operation
    op,                      \* per thread: the operation it runs
    locks,                   \* per Mutex: the thread holding its guard, or 0
    poisoned,                \* per Mutex: a thread panicked holding its guard
    local,                   \* per thread: the values it read from the statics
    hist,                    \* the writes and completed builds so far
    plan                     \* the calls the application makes

vars == <<MATERIALS_PATH, RESOLUTION_NEGOTIATION, app_config, fs, desc,
          materials, images, requests, last, pc, op, locks, poisoned, local,
          hist, plan>>

----------------------------------------------------------------------------
(* Bounds of the model *)

\* width and height of the images on disk range over 1..MaxDim
MaxDim == 2

\* number of load calls in one behaviour
MaxLoads == 1

\* number of threads calling default, build and load concurrently
NumProcs == 3

\* number of threads that build the plugin or call default while the
\* application's load calls are made
NumSetup == 1

----------------------------------------------------------------------------
(* String literals of the source *)

StrMaterials == <<"m","a","t","e","r","i","a","l","s">>

StrAssets == <<"a","s","s","e","t","s">>

StrJpgTag == <<"-","J","P","G">>

StrJpg == <<"j","p","g">>

Sep == "/"

Dot == "."

\* FileAssetReader::get_base_path(): an absolute directory fixed by the host
BasePath == <<"/","r">>

----------------------------------------------------------------------------
(* AmbientCGResolution *)

Tiers == {"OneK", "TwoK", "FourK", "EightK", "TwelveK", "SixteenK"}

\* position in the declaration order of the enum
TierRank(t) ==
    CASE t = "OneK" -> 1
      [] t = "TwoK" -> 2
      [] t = "FourK" -> 3
      [] t = "EightK" -> 4
      [] t = "TwelveK" -> 5
      [] t = "SixteenK" -> 6

\* a plausible slip: FourK falls through to OneK, skipping TwoK
next_smaller_skip(t) ==
    CASE t = "OneK" -> [ok |-> FALSE, val |-> t, err |-> "NotFound"]
      [] t = "TwoK" -> [ok |-> TRUE, val |-> "OneK", err |-> "none"]
      [] t = "FourK" -> [ok |-> TRUE, val |-> "OneK", err |-> "none"]
      [] t = "EightK" -> [ok |-> TRUE, val |-> "FourK", err |-> "none"]
      [] t = "TwelveK" -> [ok |-> TRUE, val |-> "EightK", err |-> "none"]
      [] t = "SixteenK" -> [ok |-> TRUE, val |-> "TwelveK", err |-> "none"]

\* a plausible slip: TwoK is taken for the smallest tier
next_smaller_early(t) ==
    CASE t = "OneK" -> [ok |-> FALSE, val |-> t, err |-> "NotFound"]
      [] t = "TwoK" -> [ok |-> FALSE, val |-> t, err |-> "NotFound"]
      [] t = "FourK" -> [ok |-> TRUE, val |-> "TwoK", err |-> "none"]
      [] t = "EightK" -> [ok |-> TRUE, val |-> "FourK", err |-> "none"]
      [] t = "TwelveK" -> [ok |-> TRUE, val |-> "EightK", err |-> "none"]
      [] t = "SixteenK" -> [ok |-> TRUE, val |-> "TwelveK", err |-> "none"]

\* AmbientCGResolution::next_smaller: Result<Self, AmbientCGImportError>
next_smaller(t) ==
    CASE t = "OneK" -> [ok |-> FALSE, val |-> t, err |-> "NotFound"]
      [] t = "TwoK" -> [ok |-> TRUE, val |-> "OneK", err |-> "none"]
      [] t = "FourK" -> [ok |-> TRUE, val |-> "TwoK", err |-> "none"]
      [] t = "EightK" -> [ok |-> TRUE, val |-> "FourK", err |-> "none"]
      [] t = "TwelveK" -> [ok |-> TRUE, val |-> "EightK", err |-> "none"]
      [] t = "SixteenK" -> [ok |-> TRUE, val |-> "TwelveK", err |-> "none"]

\* impl Display for AmbientCGResolution
TierDisplay(t) ==
    CASE t = "OneK" -> <<"1","K">>
      [] t = "TwoK" -> <<"2","K">>
      [] t = "FourK" -> <<"4","K">>
      [] t = "EightK" -> <<"8","K">>
      [] t = "TwelveK" -> <<"1","2","K">>
      [] t = "SixteenK" -> <<"1","6","K">>

\* format!("{}_{}-JPG", name, resolution)
ConstructedMaterialName(name, resolution) ==
    name \o <<"_">> \o TierDisplay(resolution) \o StrJpgTag

----------------------------------------------------------------------------
(* std::path on a Unix host, on the raw string as PathBuf keeps it *)

IsAbsolute(p) == Len(p) > 0 /\ p[1] = Sep

\* PathBuf::push (and Path::join, which is clone + push): an absolute
\* argument replaces the path, otherwise a separator is added when the
\* path does not already end with one
Push(path, p) ==
    IF IsAbsolute(p) THEN p
    ELSE IF Len(path) > 0 /\ path[Len(path)] # Sep THEN path \o <<Sep>> \o p
    ELSE path \o p

\* index of the last occurrence of character c in p, 0 when there is none
LastIndexOf(p, c) ==
    LET hits == {i \in 1..Len(p) : p[i] = c}
    IN IF hits = {} THEN 0 ELSE CHOOSE i \in hits : \A j \in hits : j <= i

\* Path::with_extension on a path that ends in a normal file name. A file
\* name without a '.', or with a leading '.' only, has no extension and
\* gets "." + extension appended. Otherwise the path is copied up to and
\* including the last '.' of the file name and set_extension acts on the
\* copy: a copy whose last component is ".." has no file name and is left
\* as it is; else it is cut back before that '.' and "." + extension is
\* appended
WithExtension(p, ext) ==
    LET slash == LastIndexOf(p, Sep)
        fname == SubSeq(p, slash + 1, Len(p))
        dot   == LastIndexOf(fname, Dot)
    IN IF dot <= 1 THEN p \o <<Dot>> \o ext
       ELSE IF SubSeq(fname, 1, dot) = <<Dot, Dot>>
            THEN SubSeq(p, 1, slash + dot)
       ELSE SubSeq(p, 1, slash + dot - 1) \o <<Dot>> \o ext

\* absolute_resource_path: <base>/assets pushed with p
absolute_resource_path(p) == Push(Push(BasePath, StrAssets), p)

\* the path split at its separators: every piece is kept, also the empty
\* one before a leading or after a trailing separator, "." and ".."
RECURSIVE SplitFrom(_, _, _, _)
SplitFrom(p, i, cur, acc) ==
    IF i > Len(p) THEN Append(acc, cur)
    ELSE IF p[i] = Sep THEN SplitFrom(p, i + 1, <<>>, Append(acc, cur))
    ELSE SplitFrom(p, i + 1, Append(cur, p[i]), acc)

Components(p) == SplitFrom(p, 1, <<>>, <<>>)

----------------------------------------------------------------------------
(* Values of the source's types *)

\* Option<&str> and Option<Vec2> as records, so that every value compares
NoStr == [some |-> FALSE, val |-> <<>>]

SomeStr(s) == [some |-> TRUE, val |-> s]

Vec2(x, y) == [x |-> x, y |-> y]

\* Vec2::ZERO
Vec2ZERO == Vec2(0, 0)

NoVec == [some |-> FALSE, val |-> Vec2ZERO]

SomeVec(v) == [some |-> TRUE, val |-> v]

\* Affine2 { matrix2, translation }, matrix2 column by column
Affine2(m00, m01, m10, m11, tx, ty) ==
    [m00 |-> m00, m01 |-> m01, m10 |-> m10, m11 |-> m11, tx |-> tx, ty |-> ty]

\* Affine2::default() is Affine2::IDENTITY
Affine2Default == Affine2(1, 0, 0, 1, 0, 0)

\* Affine2::from_scale
Affine2FromScale(v) == Affine2(v.x, 0, 0, v.y, 0, 0)

\* Option<Handle<Image>>
NoHandle == [kind |-> "None", path |-> <<>>, id |-> 0]

PathHandle(p) == [kind |-> "Path", path |-> p, id |-> 0]

MemHandle(i) == [kind |-> "Mem", path |-> <<>>, id |-> i]

\* the six channels, with the suffix the source gives each
Channels == {"AmbientOcclusion", "Color", "Displacement", "Metalness",
             "NormalGL", "Roughness"}

Suffix(ch) ==
    CASE ch = "AmbientOcclusion" ->
            <<"_","A","m","b","i","e","n","t","O","c","c","l","u","s","i","o","n">>
      [] ch = "Color" -> <<"_","C","o","l","o","r">>
      [] ch = "Displacement" ->
            <<"_","D","i","s","p","l","a","c","e","m","e","n","t">>
      [] ch = "Metalness" -> <<"_","M","e","t","a","l","n","e","s","s">>
      [] ch = "NormalGL" -> <<"_","N","o","r","m","a","l","G","L">>
      [] ch = "Roughness" -> <<"_","R","o","u","g","h","n","e","s","s">>

----------------------------------------------------------------------------
(* The files on disk: AmbientCG packs <pack>_<tier>-JPG, each holding     *)
(* <pack>_<tier>-JPG<suffix>.jpg, unpacked under <base>/assets            *)

NameB == <<"B">>

NameDot == <<"B", ".", "1">>

NameSep == <<"a", "/", "B">>

StrS == <<"s">>

StrM == <<"m">>

\* packs that may be on disk, and the directories they are unpacked in
Packs == {NameB, NameDot}

Locs == { <<StrMaterials>>, <<StrMaterials, StrS>>, <<StrMaterials, <<"a">> >>,
          <<StrM>> }

\* a file that is no channel file of a pack: B.jpg
StrayName == <<"B", ".", "j", "p", "g">>

FileKinds == Channels \cup {"Stray"}

\* grayscale images a file may decode to; ok = FALSE is an undecodable file
Dims == 1..MaxDim

Img(w, h, seed) == [ok |-> TRUE, w |-> w, h |-> h, seed |-> seed]

Corrupt == [ok |-> FALSE, w |-> 0, h |-> 0, seed |-> 0]

\* the u8 sample at (x, y) of a decoded image after grayscale()
Gray(img, x, y) == (img.seed + 7 * x + 3 * y) % 256

RoughImages == {Img(w, h, 10) : w \in Dims, h \in Dims} \cup {Corrupt}

MetalImages == {Img(w, h, 200) : w \in Dims, h \in Dims} \cup {Corrupt}

RootComps == <<SubSeq(BasePath, 2, Len(BasePath)), StrAssets>>

IsPrefix(s, t) == Len(s) <= Len(t) /\ SubSeq(t, 1, Len(s)) = s

IsPackDir(c) ==
    \E pack \in Packs, t \in fs.dirs : c = ConstructedMaterialName(pack, t)

\* the kind of file f in pack directory d, "None" when there is no such file
FileKindOf(d, f) ==
    IF \E ch \in Channels : f = d \o Suffix(ch) \o <<Dot>> \o StrJpg
    THEN CHOOSE ch \in Channels : f = d \o Suffix(ch) \o <<Dot>> \o StrJpg
    ELSE IF f = StrayName THEN "Stray" ELSE "None"

\* whether the file system holds an entry with these components
FsHas(comps) ==
    LET n == Len(comps)
    IN \/ \E loc \in Locs : IsPrefix(comps, RootComps \o loc)
       \/ \E loc \in Locs :
             LET base == RootComps \o loc
             IN \/ /\ n = Len(base) + 1
                   /\ IsPrefix(base, comps)
                   /\ IsPackDir(comps[n])
                \/ /\ n = Len(base) + 2
                   /\ IsPrefix(base, comps)
                   /\ IsPackDir(comps[n - 1])
                   /\ FileKindOf(comps[n - 1], comps[n]) \in fs.files

\* whether the file system holds a directory with these components
IsDir(comps) ==
    \/ \E loc \in Locs : IsPrefix(comps, RootComps \o loc)
    \/ \E loc \in Locs :
          /\ Len(comps) = Len(RootComps \o loc) + 1
          /\ IsPrefix(RootComps \o loc, comps)
          /\ IsPackDir(comps[Len(comps)])

\* the operating system's walk along the pieces of an absolute path, from
\* piece i on, having reached the entry cur: every piece is looked up in a
\* directory; an empty piece and "." stay there, ".." steps back to the
\* parent (the root is its own parent), a name steps to that entry
RECURSIVE Walk(_, _, _)
Walk(raw, i, cur) ==
    IF i > Len(raw) THEN [ok |-> TRUE, comps |-> cur]
    ELSE IF ~IsDir(cur) THEN [ok |-> FALSE, comps |-> cur]
    ELSE IF raw[i] = <<>> \/ raw[i] = <<Dot>> THEN Walk(raw, i + 1, cur)
    ELSE IF raw[i] = <<Dot, Dot>>
         THEN Walk(raw, i + 1, SubSeq(cur, 1, Len(cur) - 1))
    ELSE Walk(raw, i + 1, Append(cur, raw[i]))

\* the entry an absolute path resolves to, if its walk succeeds
Resolve(p) == Walk(Components(p), 1, <<>>)

\* Path::exists
Exists(p) == LET r == Resolve(p) IN r.ok /\ FsHas(r.comps)

\* what ImageReader::open(p).decode() finds at p: a directory or a missing
\* file does not decode
FileImage(p) ==
    LET r == Resolve(p)
        n == Len(r.comps)
        kind == IF n >= 2 THEN FileKindOf(r.comps[n - 1], r.comps[n]) ELSE "None"
    IN IF ~r.ok \/ ~FsHas(r.comps) \/ IsDir(r.comps) THEN Corrupt
       ELSE IF kind = "Metalness" THEN fs.metal
       ELSE fs.rough

----------------------------------------------------------------------------
(* Events a load call performs, in program order *)

EvExists(p) == [op |-> "exists", path |-> p, x |-> 0, y |-> 0]

EvLoad(p) == [op |-> "load", path |-> p, x |-> 0, y |-> 0]

EvDecode(p) == [op |-> "decode", path |-> p, x |-> 0, y |-> 0]

EvAlloc(w, h) == [op |-> "alloc", path |-> <<>>, x |-> w, y |-> h]

EvPut(x, y) == [op |-> "put", path |-> <<>>, x |-> x, y |-> y]

EvAddImage == [op |-> "add_image", path |-> <<>>, x |-> 0, y |-> 0]

EvAddMaterial == [op |-> "add_material", path |-> <<>>, x |-> 0, y |-> 0]

----------------------------------------------------------------------------
(* AmbientCGMaterial::negotiate_resolution *)

\* a plausible slip: the rebuilt descriptor loses the uv_scale
SmallerMaterialNoUv(self, resolution) ==
    [name |-> self.name, resolution |-> resolution,
     subfolder |-> self.subfolder, uv_scale |-> NoVec]

\* the descriptor the recursion is entered with: Self { name, resolution,
\* subfolder, uv_scale } with only the resolution replaced
SmallerMaterial(self, resolution) ==
    [name |-> self.name, resolution |-> resolution,
     subfolder |-> self.subfolder, uv_scale |-> self.uv_scale]

\* the directory negotiate_resolution probes for self
ResourcePath(self, materials_path) ==
    Push(materials_path, ConstructedMaterialName(self.name, self.resolution))

\* a plausible slip: a missing directory is checked a second time before the
\* descent
RECURSIVE negotiate_resolution_retry(_, _)
negotiate_resolution_retry(self, materials_path) ==
    LET probe == absolute_resource_path(ResourcePath(self, materials_path))
    IN IF ~Exists(probe)
       THEN LET r == next_smaller(self.resolution)
            IN IF ~r.ok
               THEN [ok |-> FALSE, val |-> self, err |-> r.err,
                     events |-> <<EvExists(probe), EvExists(probe)>>]
               ELSE LET rec == negotiate_resolution_retry(
                                   SmallerMaterial(self, r.val), materials_path)
                    IN [rec EXCEPT !.events = <<EvExists(probe), EvExists(probe)>> \o @]
       ELSE [ok |-> TRUE, val |-> self, err |-> "none",
             events |-> <<EvExists(probe)>>]

\* Result<AmbientCGMaterial, AmbientCGImportError>, with the existence
\* checks made, in order
RECURSIVE negotiate_resolution(_, _)
negotiate_resolution(self, materials_path) ==
    LET probe == absolute_resource_path(ResourcePath(self, materials_path))
    IN IF ~Exists(probe)
       THEN LET r == next_smaller(self.resolution)
            IN IF ~r.ok
               THEN [ok |-> FALSE, val |-> self, err |-> r.err,
                     events |-> <<EvExists(probe)>>]
               ELSE LET rec == negotiate_resolution(
                                   SmallerMaterial(self, r.val), materials_path)
                    IN [rec EXCEPT !.events = <<EvExists(probe)>> \o @]
       ELSE [ok |-> TRUE, val |-> self, err |-> "none",
             events |-> <<EvExists(probe)>>]

\* a plausible slip: the existence check is made with negotiation off too
NegotiateAlways(self, materials_path, enabled) ==
    negotiate_resolution(self, materials_path)

\* lines 239-248: the descriptor is negotiated only when the toggle is on
Negotiate(self, materials_path, enabled) ==
    IF enabled
    THEN negotiate_resolution(self, materials_path)
    ELSE [ok |-> TRUE, val |-> self, err |-> "none", events |-> <<>>]

----------------------------------------------------------------------------
(* create_roughness_metallic_image and load_grayscale_image *)

\* the pixels of a width x height image in enumerate_pixels_mut order
PixelSeq(w, h) == [i \in 1..(w * h) |-> <<(i - 1) % w, (i - 1) \div w>>]

PutEvents(w, h) == [i \in 1..(w * h) |-> EvPut(PixelSeq(w, h)[i][1], PixelSeq(w, h)[i][2])]

NoImage == [w |-> 0, h |-> 0, px |-> <<>>]

\* a plausible slip: the output is allocated before the dimensions are compared
CreateMismatchLate(roughness, metallic, pre) ==
    [status |-> "DimensionMismatch",
     events |-> pre \o <<EvAlloc(roughness.w, roughness.h)>>, image |-> NoImage]

\* assert_eq! on width, then on height, failing: nothing is allocated
CreateMismatch(roughness, metallic, pre) ==
    [status |-> "DimensionMismatch", events |-> pre, image |-> NoImage]

\* let color = [0, roughness, metallic]
PackedPixel(roughness, metallic, x, y) ==
    <<0, Gray(roughness, x, y), Gray(metallic, x, y)>>

\* the function body, with its two parameters named as the source names them
create_roughness_metallic_image(roughness_path, metallic_path) ==
    LET roughness == FileImage(roughness_path)
        metallic == FileImage(metallic_path)
        ev1 == <<EvDecode(roughness_path)>>
        ev2 == ev1 \o <<EvDecode(metallic_path)>>
    IN IF ~roughness.ok
       THEN [status |-> "DecodeFailure", events |-> ev1, image |-> NoImage]
       ELSE IF ~metallic.ok
       THEN [status |-> "DecodeFailure", events |-> ev2, image |-> NoImage]
       ELSE IF roughness.w # metallic.w \/ roughness.h # metallic.h
       THEN CreateMismatch(roughness, metallic, ev2)
       ELSE LET width == roughness.w
                height == roughness.h
            IN [status |-> "ok",
                events |-> ev2 \o <<EvAlloc(width, height)>>
                               \o PutEvents(width, height),
                image |-> [w |-> width, h |-> height,
                           px |-> [i \in 1..(width * height) |->
                                      PackedPixel(roughness, metallic,
                                                  PixelSeq(width, height)[i][1],
                                                  PixelSeq(width, height)[i][2])]]]

\* RgbImage::get_pixel(x, y) on the row-major buffer
GetPixel(image, x, y) == image.px[y * image.w + x + 1]

----------------------------------------------------------------------------
(* AmbientCGMaterial::load_with_uv_scale *)

\* the order in which the source builds and checks the six paths
ChannelOrder == <<"AmbientOcclusion", "Color", "Displacement", "Metalness",
                  "NormalGL", "Roughness">>

\* material_path.join(constructed_material_name + suffix).with_extension("jpg")
ChannelPath(material_path, constructed_material_name, ch) ==
    WithExtension(Push(material_path, constructed_material_name \o Suffix(ch)),
                  StrJpg)

\* material_path before the pack directory is pushed: the materials root,
\* pushed with the subfolder when there is one
MaterialRoot(root, subfolder) ==
    IF subfolder.some THEN Push(root, subfolder.val) ELSE root

\* the six channel paths of a (negotiated) descriptor under a materials root
ChannelPaths(root, m) ==
    LET constructed_material_name == ConstructedMaterialName(m.name, m.resolution)
        material_path == Push(MaterialRoot(root, m.subfolder),
                              constructed_material_name)
    IN [ch \in Channels |->
           ChannelPath(material_path, constructed_material_name, ch)]

\* if exists { Some(asset_server.load_with_settings(path, ..)) } else { None }
PassThrough(exists, path) == IF exists THEN PathHandle(path) ELSE NoHandle

\* a plausible slip: the scale is applied to one axis only
UvTransformUniform(uv_scale) ==
    IF uv_scale = Vec2ZERO THEN Affine2Default
    ELSE Affine2FromScale(Vec2(uv_scale.x, uv_scale.x))

\* the closure of lines 306-311
UvTransform(uv_scale) ==
    IF uv_scale = Vec2ZERO THEN Affine2Default ELSE Affine2FromScale(uv_scale)

NoMaterial ==
    [base_color_texture |-> NoHandle, metallic_roughness_texture |-> NoHandle,
     metallic |-> 0, normal_map_texture |-> NoHandle,
     occlusion_texture |-> NoHandle, perceptual_roughness |-> 0,
     thickness_texture |-> NoHandle, uv_transform |-> Affine2Default]

\* what a call leaves behind when it panics: nothing is added to any registry
\* after the point of the panic
Panicked(status, events, reqs, resolved, paths) ==
    [status |-> status, events |-> events, requests |-> reqs,
     image |-> NoImage, synthesized |-> FALSE, material |-> NoMaterial,
     resolved |-> resolved, paths |-> paths]

\* the metallic-roughness slot and what filling it does (lines 285-296)
MetallicRoughness(metallic_texture_exists, roughness_texture_exists, metallic_texture_path, roughness_texture_path, next_id) ==
    IF metallic_texture_exists /\ roughness_texture_exists
    THEN LET made == create_roughness_metallic_image(
                         absolute_resource_path(metallic_texture_path),
                         absolute_resource_path(roughness_texture_path))
         IN [made EXCEPT
                !.events = IF made.status = "ok" THEN @ \o <<EvAddImage>> ELSE @]
            @@ [requests |-> <<>>, synthesized |-> made.status = "ok",
                handle |-> IF made.status = "ok" THEN MemHandle(next_id)
                           ELSE NoHandle]
    ELSE IF metallic_texture_exists
    THEN [status |-> "ok", events |-> <<EvLoad(metallic_texture_path)>>,
          requests |-> <<[slot |-> "metallic_roughness_texture",
                          path |-> metallic_texture_path]>>,
          image |-> NoImage, synthesized |-> FALSE,
          handle |-> PathHandle(metallic_texture_path)]
    ELSE IF roughness_texture_exists
    THEN [status |-> "ok", events |-> <<EvLoad(roughness_texture_path)>>,
          requests |-> <<[slot |-> "metallic_roughness_texture",
                          path |-> roughness_texture_path]>>,
          image |-> NoImage, synthesized |-> FALSE,
          handle |-> PathHandle(roughness_texture_path)]
    ELSE [status |-> "ok", events |-> <<>>, requests |-> <<>>,
          image |-> NoImage, synthesized |-> FALSE, handle |-> NoHandle]

\* the four plain channels, in the order the source requests them
PlainSlots == <<[slot |-> "occlusion_texture", ch |-> "AmbientOcclusion"],
                [slot |-> "base_color_texture", ch |-> "Color"],
                [slot |-> "thickness_texture", ch |-> "Displacement"],
                [slot |-> "normal_map_texture", ch |-> "NormalGL"]>>

\* the load_with_settings calls of lines 280-283
RECURSIVE PlainRequests(_, _, _)
PlainRequests(i, exists, paths) ==
    IF i > Len(PlainSlots) THEN <<>>
    ELSE (IF PassThrough(exists[PlainSlots[i].ch], paths[PlainSlots[i].ch]).kind = "Path"
          THEN <<[slot |-> PlainSlots[i].slot, path |-> paths[PlainSlots[i].ch]]>>
          ELSE <<>>)
         \o PlainRequests(i + 1, exists, paths)

\* lines 273-278: the six existence checks, in source order
ExistsAll(paths) ==
    [ch \in Channels |-> Exists(absolute_resource_path(paths[ch]))]

ExistsEvents(paths) ==
    [i \in 1..Len(ChannelOrder) |->
        EvExists(absolute_resource_path(paths[ChannelOrder[i]]))]

LoadEvents(reqs) == [i \in 1..Len(reqs) |-> EvLoad(reqs[i].path)]

\* lines 298-313: the StandardMaterial
StandardMaterial(exists, paths, mr, uv_scale) ==
    [base_color_texture |-> PassThrough(exists["Color"], paths["Color"]),
     metallic_roughness_texture |-> mr.handle,
     metallic |-> 1,
     normal_map_texture |-> PassThrough(exists["NormalGL"], paths["NormalGL"]),
     occlusion_texture |->
         PassThrough(exists["AmbientOcclusion"], paths["AmbientOcclusion"]),
     perceptual_roughness |-> 1,
     thickness_texture |->
         PassThrough(exists["Displacement"], paths["Displacement"]),
     uv_transform |-> UvTransform(uv_scale)]

\* the call once negotiation has succeeded (lines 250-314): its outcome, the
\* events it performs and what it registers
Assemble(neg, paths, exists, plain, mr, uv_scale) ==
    IF mr.status # "ok"
    THEN Panicked(mr.status,
                  neg.events \o ExistsEvents(paths) \o LoadEvents(plain) \o mr.events,
                  plain, neg.val, paths)
    ELSE [status |-> "ok",
          events |-> neg.events \o ExistsEvents(paths) \o LoadEvents(plain)
                         \o mr.events \o <<EvAddMaterial>>,
          requests |-> plain \o mr.requests,
          image |-> mr.image,
          synthesized |-> mr.synthesized,
          material |-> StandardMaterial(exists, paths, mr, uv_scale),
          resolved |-> neg.val,
          paths |-> paths]

\* line 246: panic!("{}", err)
NegotiationPanic(neg) ==
    Panicked(neg.err, neg.events, <<>>, neg.val, [ch \in Channels |-> <<>>])

----------------------------------------------------------------------------
(* The state machine *)

Config(materials_path, resolution_negotiation) ==
    [materials_path |-> materials_path,
     resolution_negotiation |-> resolution_negotiation]

NoConfig == [some |-> FALSE, val |-> Config(<<>>, FALSE)]

\* the configurations an application may build the plugin with
Configs == {Config(p, b) : p \in {StrMaterials, StrM}, b \in BOOLEAN}

Material(name, resolution, subfolder, uv_scale) ==
    [name |-> name, resolution |-> resolution, subfolder |-> subfolder,
     uv_scale |-> uv_scale]

Names == {NameB, NameDot, NameSep}

Subfolders == {NoStr, SomeStr(StrS)}

UvScales == {NoVec, SomeVec(Vec2ZERO), SomeVec(Vec2(2, 3))}

\* the explicit arguments load_with_uv_scale is called with
UvArgs == {Vec2(8, 8)}

\* a material the host registry may hold before any load call
HostMaterial == [NoMaterial EXCEPT !.perceptual_roughness = 1]

NoCall ==
    [n |-> 0, entry |-> "none", uv_scale |-> Vec2ZERO,
     materials_path |-> <<>>, resolution_negotiation |-> FALSE,
     status |-> "none",
     events |-> <<>>, synthesized |-> FALSE, resolved |-> desc,
     paths |-> [ch \in Channels |-> <<>>], handle |-> 0,
     before |-> [materials |-> 0, images |-> 0, requests |-> 0]]

FileSystem(dirs, files, rough, metal) ==
    [dirs |-> dirs, files |-> files, rough |-> rough, metal |-> metal]

\* the threads of the application
Procs == 1..NumProcs

\* the three entry points of a load call
Entries == {"load", "load_without_uv_scale", "load_with_uv_scale"}

\* the calls a thread may make
Kinds == {"default", "build", "load"}

\* what the application does: which calls each of its threads may make
\* (none for a thread it does not use), through which entry points it
\* loads, and the configurations it builds the plugin with
Plan(roles, entries, configs) ==
    [roles |-> roles, entries |-> entries, configs |-> configs]

\* MaxLoads threads make one load call each, NumSetup others build the
\* plugin or call default
SetupAndLoad ==
    [p \in Procs |-> IF p <= MaxLoads THEN {"load"}
                     ELSE IF p <= MaxLoads + NumSetup THEN {"default", "build"}
                     ELSE {}]

\* every thread makes any call
AnyCalls == [p \in Procs |-> Kinds]

\* the configurations the threads build the plugin with: one that differs
\* from the defaults in both values, and the defaults
ThreadConfigs == {Config(StrM, FALSE), Config(StrMaterials, TRUE)}

\* packs of any set of tiers, complete, and any tier requested
InitNegotiation ==
    /\ \E dirs \in SUBSET Tiers :
          fs = FileSystem(dirs, Channels, Img(1, 1, 10), Img(1, 1, 200))
    /\ \E nm \in {<<NameB, NoStr>>, <<NameDot, SomeStr(StrS)>>}, t \in Tiers :
          desc = Material(nm[1], t, nm[2], NoVec)
    /\ materials = <<HostMaterial>>
    /\ plan = Plan(SetupAndLoad, {"load"}, ThreadConfigs)

\* a 1K pack holding any set of channel files, under a plain name; under a
\* name with a '.' or a separator, a full or empty pack with or without B.jpg
InitPacking ==
    /\ \/ /\ \E files \in SUBSET Channels :
                fs = FileSystem({"OneK"}, files, Img(MaxDim, 1, 10), Img(MaxDim, 1, 200))
          /\ desc = Material(NameB, "OneK", NoStr, NoVec)
       \/ /\ \E files \in {{}, {"Stray"}, Channels, FileKinds} :
                fs = FileSystem({"OneK"}, files, Img(MaxDim, 1, 10), Img(MaxDim, 1, 200))
          /\ \E name \in {NameDot, NameSep} :
                desc = Material(name, "OneK", NoStr, NoVec)
    /\ materials = <<>>
    /\ plan = Plan(SetupAndLoad, {"load"}, Configs)

\* roughness and metalness files of any content
InitSynthesis ==
    /\ \E rough \in RoughImages, metal \in MetalImages :
          fs = FileSystem({"OneK", "FourK"}, {"Metalness", "Roughness"}, rough, metal)
    /\ \E sub \in Subfolders : desc = Material(NameB, "TwoK", sub, NoVec)
    /\ materials \in {<<>>, <<HostMaterial>>}
    /\ plan = Plan(SetupAndLoad, {"load"}, Configs)

\* any uv_scale in the descriptor, with and without a tier to descend from
InitUv ==
    /\ fs = FileSystem({"OneK"}, {"Color"}, Img(1, 1, 10), Img(1, 1, 200))
    /\ \E uv \in UvScales, t \in {"OneK", "FourK"} :
          desc = Material(NameB, t, NoStr, uv)
    /\ materials = <<>>
    /\ plan = Plan(SetupAndLoad, Entries, Configs)


\* the two Mutexes, by the name of their static
Mutexes == {"MATERIALS_PATH", "RESOLUTION_NEGOTIATION"}

NoOp ==
    [kind |-> "none", config |-> Config(<<>>, FALSE), entry |-> "none",
     uv_scale |-> Vec2ZERO]


\* what a thread has read from the statics, and for each read the write it
\* followed (the thread that wrote last, 0 for LazyLock's initial value), the
\* build that had completed last, and whether the builds so far ran one
\* after the other and none was running
NoLocal ==
    [materials_path |-> <<>>, resolution_negotiation |-> FALSE,
     path_writer |-> 0, toggle_writer |-> 0,
     path_built |-> 0, toggle_built |-> 0,
     path_quiet |-> FALSE, toggle_quiet |-> FALSE]

NoHist == [path_writer |-> 0, toggle_writer |-> 0, built |-> 0, overlapped |-> FALSE]

\* no thread has called anything; both Mutexes are free
Idle ==
    /\ pc = [p \in Procs |-> "idle"]
    /\ op = [p \in Procs |-> NoOp]
    /\ locks = [m \in Mutexes |-> 0]
    /\ poisoned = [m \in Mutexes |-> FALSE]
    /\ local = [p \in Procs |-> NoLocal]
    /\ hist = NoHist

\* the statics as LazyLock initialises them, and empty registries
InitStatics ==
    /\ MATERIALS_PATH = StrMaterials
    /\ RESOLUTION_NEGOTIATION = TRUE
    /\ app_config = NoConfig
    /\ images = <<>>
    /\ requests = <<>>
    /\ Idle

Init ==
    /\ InitStatics
    /\ \/ InitNegotiation
       \/ InitPacking
       \/ InitSynthesis
       \/ InitUv
    /\ last = NoCall

\* a plausible slip: the material is registered before the fatal checks
MaterialsAfterAlways(registry, out) == Append(registry, out.material)

\* materials.add(material) is the last statement: a panic never reaches it
MaterialsAfter(registry, out) ==
    IF out.status = "ok" THEN Append(registry, out.material) ELSE registry

\* what a finished call leaves in the registries and in `last`
Finish(entry, uv_scale, root, enabled, out) ==
    /\ materials' = MaterialsAfter(materials, out)
    /\ images' = IF out.synthesized THEN Append(images, out.image) ELSE images
    /\ requests' = requests \o out.requests
    /\ last' = [n |-> last.n + 1, entry |-> entry, uv_scale |-> uv_scale,
                materials_path |-> root, resolution_negotiation |-> enabled,
                status |-> out.status, events |-> out.events,
                synthesized |-> out.synthesized, resolved |-> out.resolved,
                paths |-> out.paths,
                handle |-> IF out.status = "ok" THEN Len(materials) + 1 ELSE 0,
                before |-> [materials |-> Len(materials), images |-> Len(images),
                            requests |-> Len(requests)]]
    /\ UNCHANGED <<MATERIALS_PATH, RESOLUTION_NEGOTIATION, app_config, fs, desc,
                   plan>>

\* lines 241-314 of load_with_uv_scale(uv_scale) on desc, entered as `entry`,
\* with the root and the toggle it read, in the order of the source: the
\* negotiation, the six paths, the six existence checks, the plain channels,
\* the metallic-roughness slot, the material
CallWith(entry, uv_scale, root, enabled) ==
    \E neg \in {Negotiate(desc, MaterialRoot(root, desc.subfolder), enabled)} :
          IF ~neg.ok
          THEN Finish(entry, uv_scale, root, enabled, NegotiationPanic(neg))
          ELSE \E paths \in {ChannelPaths(root, neg.val)} :
               \E exists \in {ExistsAll(paths)} :
               \E plain \in {PlainRequests(1, exists, paths)} :
               \E mr \in {MetallicRoughness(exists["Metalness"], exists["Roughness"],
                                            paths["Metalness"], paths["Roughness"],
                                            Len(images) + 1)} :
                  Finish(entry, uv_scale, root, enabled,
                         Assemble(neg, paths, exists, plain, mr, uv_scale))

----------------------------------------------------------------------------
(* The threads: AmbientCGPlugin::default, AmbientCGPlugin::build and load   *)
(* calls run concurrently, one Mutex operation per step                    *)


\* a 1K pack with both files of the combined map, of equal size, of
\* different sizes, or one undecodable; or no pack at all
InitThreads ==
    /\ InitStatics
    /\ \/ fs = FileSystem({"OneK"}, {"Metalness", "Roughness"}, Img(1, 1, 10), Img(1, 1, 200))
       \/ fs = FileSystem({"OneK"}, {"Metalness", "Roughness"}, Img(1, 1, 10), Img(MaxDim, 1, 200))
       \/ fs = FileSystem({"OneK"}, {"Metalness", "Roughness"}, Img(1, 1, 10), Corrupt)
       \/ fs = FileSystem({}, {}, Img(1, 1, 10), Img(1, 1, 200))
    /\ desc = Material(NameB, "OneK", NoStr, NoVec)
    /\ materials = <<>>
    /\ last = NoCall
    /\ plan = Plan(AnyCalls, {"load"}, ThreadConfigs)

\* a build call has begun and not returned
Building(q) == op[q].kind = "build" /\ pc[q] \notin {"done", "panicked"}

\* the guards of a panicking thread are dropped while it unwinds: their
\* Mutexes are released and poisoned
Unwind(p) ==
    /\ locks' = [m \in Mutexes |-> IF locks[m] = p THEN 0 ELSE locks[m]]
    /\ poisoned' = [m \in Mutexes |-> poisoned[m] \/ locks[m] = p]

\* m.lock().unwrap(): blocks while another thread holds the guard; panics if
\* the Mutex is poisoned
Acquire(p, m, next) ==
    /\ locks[m] = 0
    /\ IF poisoned[m]
       THEN /\ pc' = [pc EXCEPT ![p] = "panicked"]
            /\ Unwind(p)
       ELSE /\ pc' = [pc EXCEPT ![p] = next]
            /\ locks' = [locks EXCEPT ![m] = p]
            /\ UNCHANGED poisoned

\* the statics, the App and the registries are left alone
OnlyThreads ==
    UNCHANGED <<MATERIALS_PATH, RESOLUTION_NEGOTIATION, app_config, fs, desc,
                materials, images, requests, last, plan>>

\* thread p may make a call of this kind; threads with the same role are
\* interchangeable and make their calls in the order of their numbers
MayBegin(p, kind) ==
    /\ pc[p] = "idle"
    /\ kind \in plan.roles[p]
    /\ \A q \in Procs : (q < p /\ plan.roles[q] = plan.roles[p]) => pc[q] # "idle"

\* ---- AmbientCGPlugin::default (lines 97-105): both guards are temporaries
\* of the one struct expression and live until it has been evaluated

DefaultBegin(p) ==
    /\ MayBegin(p, "default")
    /\ pc' = [pc EXCEPT ![p] = "d_lock_path"]
    /\ op' = [op EXCEPT ![p] = [NoOp EXCEPT !.kind = "default"]]
    /\ UNCHANGED <<locks, poisoned, local, hist>>
    /\ OnlyThreads

\* line 101: MATERIALS_PATH.lock().unwrap()
DefaultLockPath(p) ==
    /\ pc[p] = "d_lock_path"
    /\ Acquire(p, "MATERIALS_PATH", "d_read_path")
    /\ UNCHANGED <<op, local, hist>>
    /\ OnlyThreads

\* line 101: .to_owned(), the guard kept
DefaultReadPath(p) ==
    /\ pc[p] = "d_read_path"
    /\ local' = [local EXCEPT ![p].materials_path = MATERIALS_PATH,
                              ![p].path_writer = hist.path_writer,
                              ![p].path_built = hist.built,
                              ![p].path_quiet =
                                  ~hist.overlapped /\ \A q \in Procs : ~Building(q)]
    /\ pc' = [pc EXCEPT ![p] = "d_lock_toggle"]
    /\ UNCHANGED <<op, locks, poisoned, hist>>
    /\ OnlyThreads

\* line 102: RESOLUTION_NEGOTIATION.lock().unwrap(), the first guard held
DefaultLockToggle(p) ==
    /\ pc[p] = "d_lock_toggle"
    /\ Acquire(p, "RESOLUTION_NEGOTIATION", "d_return")
    /\ UNCHANGED <<op, local, hist>>
    /\ OnlyThreads

\* line 102: the toggle is copied; of the two guards the one taken last is
\* dropped first
DefaultReturn(p) ==
    /\ pc[p] = "d_return"
    /\ local' = [local EXCEPT ![p].resolution_negotiation = RESOLUTION_NEGOTIATION,
                              ![p].toggle_writer = hist.toggle_writer,
                              ![p].toggle_built = hist.built,
                              ![p].toggle_quiet =
                                  ~hist.overlapped /\ \A q \in Procs : ~Building(q)]
    /\ op' = [op EXCEPT ![p].config =
                 Config(local[p].materials_path, RESOLUTION_NEGOTIATION)]
    /\ locks' = [locks EXCEPT !["RESOLUTION_NEGOTIATION"] = 0]
    /\ pc' = [pc EXCEPT ![p] = "d_release"]
    /\ UNCHANGED <<poisoned, hist>>
    /\ OnlyThreads

\* lines 103-104: the materials-path guard is dropped and the plugin returned
DefaultRelease(p) ==
    /\ pc[p] = "d_release"
    /\ locks' = [locks EXCEPT !["MATERIALS_PATH"] = 0]
    /\ pc' = [pc EXCEPT ![p] = "done"]
    /\ UNCHANGED <<op, poisoned, local, hist>>
    /\ OnlyThreads

\* ---- AmbientCGPlugin::build (lines 107-114): each guard is a temporary of
\* its assignment statement

BuildBegin(p) ==
    \E config \in plan.configs :
       /\ MayBegin(p, "build")
       /\ pc' = [pc EXCEPT ![p] = "b_lock_path"]
       /\ op' = [op EXCEPT ![p] = [NoOp EXCEPT !.kind = "build", !.config = config]]
       /\ hist' = [hist EXCEPT !.overlapped = @ \/ \E q \in Procs : Building(q)]
       /\ UNCHANGED <<locks, poisoned, local>>
       /\ OnlyThreads

\* line 109: MATERIALS_PATH.lock().unwrap()
BuildLockPath(p) ==
    /\ pc[p] = "b_lock_path"
    /\ Acquire(p, "MATERIALS_PATH", "b_write_path")
    /\ UNCHANGED <<op, local, hist>>
    /\ OnlyThreads

\* line 109: the assignment, and the guard dropped at the end of the statement
BuildWritePath(p) ==
    /\ pc[p] = "b_write_path"
    /\ MATERIALS_PATH' = op[p].config.materials_path
    /\ hist' = [hist EXCEPT !.path_writer = p]
    /\ locks' = [locks EXCEPT !["MATERIALS_PATH"] = 0]
    /\ pc' = [pc EXCEPT ![p] = "b_lock_toggle"]
    /\ UNCHANGED <<RESOLUTION_NEGOTIATION, app_config, fs, desc, materials,
                   images, requests, last, op, poisoned, local, plan>>

\* line 110: RESOLUTION_NEGOTIATION.lock().unwrap()
BuildLockToggle(p) ==
    /\ pc[p] = "b_lock_toggle"
    /\ Acquire(p, "RESOLUTION_NEGOTIATION", "b_write_toggle")
    /\ UNCHANGED <<op, local, hist>>
    /\ OnlyThreads

\* line 110: the assignment, and the guard dropped at the end of the statement
BuildWriteToggle(p) ==
    /\ pc[p] = "b_write_toggle"
    /\ RESOLUTION_NEGOTIATION' = op[p].config.resolution_negotiation
    /\ hist' = [hist EXCEPT !.toggle_writer = p]
    /\ locks' = [locks EXCEPT !["RESOLUTION_NEGOTIATION"] = 0]
    /\ pc' = [pc EXCEPT ![p] = "b_insert"]
    /\ UNCHANGED <<MATERIALS_PATH, app_config, fs, desc, materials,
                   images, requests, last, op, poisoned, local, plan>>

\* lines 111-112: app.insert_resource(config); build returns
BuildInsert(p) ==
    /\ pc[p] = "b_insert"
    /\ app_config' = [some |-> TRUE, val |-> op[p].config]
    /\ hist' = [hist EXCEPT !.built = p]
    /\ pc' = [pc EXCEPT ![p] = "done"]
    /\ UNCHANGED <<MATERIALS_PATH, RESOLUTION_NEGOTIATION, fs, desc, materials,
                   images, requests, last, op, locks, poisoned, local, plan>>

\* ---- AmbientCGMaterial::load (lines 210-219, 227-315)

\* the scale load_with_uv_scale is entered with: load passes the
\* descriptor's uv_scale if it has one and goes through
\* load_without_uv_scale otherwise (lines 215-218), which passes Vec2::ZERO
\* (line 225)
EntryScale(entry, uv_scale) ==
    CASE entry = "load" ->
            IF desc.uv_scale.some THEN desc.uv_scale.val ELSE Vec2ZERO
      [] entry = "load_without_uv_scale" -> Vec2ZERO
      [] entry = "load_with_uv_scale" -> uv_scale

\* a thread calls load, load_without_uv_scale or load_with_uv_scale
LoadBegin(p) ==
    \E entry \in plan.entries, uv_scale \in UvArgs :
       /\ MayBegin(p, "load")
       /\ pc' = [pc EXCEPT ![p] = "l_lock_path"]
       /\ op' = [op EXCEPT ![p] = [NoOp EXCEPT !.kind = "load", !.entry = entry,
                                    !.uv_scale = EntryScale(entry, uv_scale)]]
       /\ UNCHANGED <<locks, poisoned, local, hist>>
       /\ OnlyThreads

\* line 233: MATERIALS_PATH.lock().unwrap()
LoadLockPath(p) ==
    /\ pc[p] = "l_lock_path"
    /\ Acquire(p, "MATERIALS_PATH", "l_read_path")
    /\ UNCHANGED <<op, local, hist>>
    /\ OnlyThreads

\* a plausible slip: the root is the literal "materials", not the static
MaterialsRootLiteral(static) == StrMaterials

\* line 233: PathBuf::from_str(&guard)
MaterialsRootRead(static) == static

\* line 233: the root is copied and the guard dropped at the end of the let
LoadReadPath(p) ==
    /\ pc[p] = "l_read_path"
    /\ local' = [local EXCEPT ![p].materials_path = MaterialsRootRead(MATERIALS_PATH),
                              ![p].path_writer = hist.path_writer,
                              ![p].path_built = hist.built,
                              ![p].path_quiet =
                                  ~hist.overlapped /\ \A q \in Procs : ~Building(q)]
    /\ locks' = [locks EXCEPT !["MATERIALS_PATH"] = 0]
    /\ pc' = [pc EXCEPT ![p] = "l_lock_toggle"]
    /\ UNCHANGED <<op, poisoned, hist>>
    /\ OnlyThreads

\* line 240: RESOLUTION_NEGOTIATION.lock().unwrap()
LoadLockToggle(p) ==
    /\ pc[p] = "l_lock_toggle"
    /\ Acquire(p, "RESOLUTION_NEGOTIATION", "l_read_toggle")
    /\ UNCHANGED <<op, local, hist>>
    /\ OnlyThreads

\* a plausible slip: the guard lives through the block, as the guard of an
\* `if let` or `match` scrutinee would
ToggleGuardThroughBlock(p) == p

\* line 240: the guard is a temporary of the `if` condition and is dropped
\* before the block is entered: no thread holds the Mutex after it
ToggleGuardAfterCondition(p) == 0

\* a plausible slip: the toggle is taken to be on, whatever the static holds
ToggleReadDefault(static) == TRUE

\* line 240: *guard
ToggleRead(static) == static

\* line 240: the toggle is copied
LoadReadToggle(p) ==
    /\ pc[p] = "l_read_toggle"
    /\ local' = [local EXCEPT ![p].resolution_negotiation =
                                  ToggleRead(RESOLUTION_NEGOTIATION),
                              ![p].toggle_writer = hist.toggle_writer,
                              ![p].toggle_built = hist.built,
                              ![p].toggle_quiet =
                                  ~hist.overlapped /\ \A q \in Procs : ~Building(q)]
    /\ locks' = [locks EXCEPT !["RESOLUTION_NEGOTIATION"] = ToggleGuardAfterCondition(p)]
    /\ pc' = [pc EXCEPT ![p] = "l_rest"]
    /\ UNCHANGED <<op, poisoned, hist>>
    /\ OnlyThreads

\* lines 241-314: the rest of the call, on the values the thread read; a
\* panic unwinds the thread
LoadRest(p) ==
    /\ pc[p] = "l_rest"
    /\ CallWith(op[p].entry, op[p].uv_scale,
                local[p].materials_path, local[p].resolution_negotiation)
    /\ IF last'.status = "ok"
       THEN /\ pc' = [pc EXCEPT ![p] = "done"]
            /\ locks' = [m \in Mutexes |-> IF locks[m] = p THEN 0 ELSE locks[m]]
            /\ UNCHANGED poisoned
       ELSE /\ pc' = [pc EXCEPT ![p] = "panicked"]
            /\ Unwind(p)
    /\ UNCHANGED <<op, local, hist>>

Next ==
    \E p \in Procs :
       \/ DefaultBegin(p) \/ DefaultLockPath(p) \/ DefaultReadPath(p)
       \/ DefaultLockToggle(p) \/ DefaultReturn(p) \/ DefaultRelease(p)
       \/ BuildBegin(p) \/ BuildLockPath(p) \/ BuildWritePath(p)
       \/ BuildLockToggle(p) \/ BuildWriteToggle(p) \/ BuildInsert(p)
       \/ LoadBegin(p) \/ LoadLockPath(p) \/ LoadReadPath(p)
       \/ LoadLockToggle(p) \/ LoadReadToggle(p) \/ LoadRest(p)

\* an application of a few threads making one load call, on any disk
Spec == Init /\ [][Next]_vars

\* an application whose threads all make calls, on a few disks
SpecThreads == InitThreads /\ [][Next]_vars

----------------------------------------------------------------------------
(* Vocabulary of the properties *)

\* a load call has been made / has returned a material
Called == last.n > 0

\* the materials root and the toggle the last load call read
UsedRoot == last.materials_path

UsedToggle == last.resolution_negotiation

Returned == Called /\ last.status = "ok"

\* the material the last call returned
Produced == materials[last.handle]

\* what the last call itself asked of the asset loader and registered
CallRequests == SubSeq(requests, last.before.requests + 1, Len(requests))

CallImages == SubSeq(images, last.before.images + 1, Len(images))

\* the directory of the tier-t pack of desc, as the naming convention has it
TierDir(t) ==
    absolute_resource_path(
        Push(MaterialRoot(UsedRoot, desc.subfolder),
             ConstructedMaterialName(desc.name, t)))

TierOfRank(r) == CHOOSE t \in Tiers : TierRank(t) = r

\* the tiers at or below the requested one whose directory exists
Available ==
    {t \in Tiers : TierRank(t) <= TierRank(desc.resolution) /\ Exists(TierDir(t))}

Largest(ts) == CHOOSE t \in ts : \A u \in ts : TierRank(u) <= TierRank(t)

IsTierProbe(e) == \E t \in Tiers : e = EvExists(TierDir(t))

\* the channel file of the naming convention:
\* <root>/[subfolder/]<stem>/<stem><suffix>.jpg
ConventionFile(m, ch) ==
    Push(Push(MaterialRoot(UsedRoot, m.subfolder),
              ConstructedMaterialName(m.name, m.resolution)),
         ConstructedMaterialName(m.name, m.resolution) \o Suffix(ch)
             \o <<Dot>> \o StrJpg)

OnDisk(p) == Exists(absolute_resource_path(p))

----------------------------------------------------------------------------
(* C1 *)

\* C1: when a call synthesizes the combined map, every in-bounds pixel has
\* channel 0 = 0, channel 1 = the grayscale sample of the image at the
\* _Roughness path and channel 2 = the grayscale sample of the image at the
\* _Metalness path.
C1_PackedChannels ==
    (Returned /\ last.synthesized) =>
        LET out == CallImages[1]
            rough == FileImage(absolute_resource_path(last.paths["Roughness"]))
            metal == FileImage(absolute_resource_path(last.paths["Metalness"]))
        IN \A x \in 0..(out.w - 1), y \in 0..(out.h - 1) :
              /\ GetPixel(out, x, y)[1] = 0
              /\ GetPixel(out, x, y)[2] = Gray(rough, x, y)
              /\ GetPixel(out, x, y)[3] = Gray(metal, x, y)

----------------------------------------------------------------------------
(* C2 *)

\* C2: with negotiation enabled, the directories probed are those of the
\* requested tier, its next smaller tier, and so on, none skipped and none
\* above the requested tier, up to and including the first one that exists;
\* the call resolves to that tier, the largest available one at or below the
\* requested tier, and probes no tier directory after it.
C2_DescentOrder ==
    (Called /\ UsedToggle) =>
        LET n == TierRank(desc.resolution)
            k == IF Available = {} THEN n
                 ELSE n - TierRank(Largest(Available)) + 1
        IN /\ Len(last.events) >= k
           /\ \A i \in 1..k :
                 last.events[i] = EvExists(TierDir(TierOfRank(n - i + 1)))
           /\ \A i \in (k + 1)..Len(last.events) : ~IsTierProbe(last.events[i])
           /\ Available # {} => last.resolved.resolution = Largest(Available)

\* a call that descended over a missing tier and found a smaller one
C2_Witness ==
    /\ Called /\ UsedToggle
    /\ desc.resolution = "SixteenK"
    /\ last.resolved.resolution = "FourK"
    /\ last.status = "ok"
    /\ "TwelveK" \notin fs.dirs /\ "OneK" \in fs.dirs

----------------------------------------------------------------------------
(* C4 *)

\* C4: with negotiation enabled, a call fails with the tier-exhausted error
\* exactly when no directory exists for the requested tier or a smaller one,
\* whatever larger tiers exist, and then the last thing it did was to probe
\* the 1K directory and find it missing.
C4_Exhaustion ==
    (Called /\ UsedToggle) =>
        /\ last.status = "NotFound" <=> Available = {}
        /\ last.status = "NotFound" =>
              /\ last.events[Len(last.events)] = EvExists(TierDir("OneK"))
              /\ ~Exists(TierDir("OneK"))

\* a failed call although a larger tier than the requested one is on disk
C4_Witness ==
    /\ Called /\ UsedToggle
    /\ last.status = "NotFound"
    /\ desc.resolution = "FourK"
    /\ Exists(TierDir("EightK"))
    /\ Len(last.events) = 3

----------------------------------------------------------------------------
(* C3 *)

PlainSlotOf(ch) ==
    CASE ch = "AmbientOcclusion" -> Produced.occlusion_texture
      [] ch = "Color" -> Produced.base_color_texture
      [] ch = "Displacement" -> Produced.thickness_texture
      [] ch = "NormalGL" -> Produced.normal_map_texture

\* the packing policy over the files has(ch) at the paths file(ch)
PackingPolicy(has, file) ==
    /\ (has["Metalness"] /\ has["Roughness"]) =>
          /\ Produced.metallic_roughness_texture.kind = "Mem"
          /\ Len(CallImages) = 1
          /\ \A i \in 1..Len(CallRequests) :
                CallRequests[i].path \notin {file["Metalness"], file["Roughness"]}
    /\ (has["Metalness"] /\ ~has["Roughness"]) =>
          Produced.metallic_roughness_texture = PathHandle(file["Metalness"])
    /\ (~has["Metalness"] /\ has["Roughness"]) =>
          Produced.metallic_roughness_texture = PathHandle(file["Roughness"])
    /\ (~has["Metalness"] /\ ~has["Roughness"]) =>
          Produced.metallic_roughness_texture = NoHandle
    /\ ~(has["Metalness"] /\ has["Roughness"]) => CallImages = <<>>
    /\ \A ch \in {"AmbientOcclusion", "Color", "Displacement", "NormalGL"} :
          /\ PlainSlotOf(ch) = IF has[ch] THEN PathHandle(file[ch]) ELSE NoHandle
          /\ has[ch] <=> \E i \in 1..Len(CallRequests) : CallRequests[i].path = file[ch]

\* C3: for each presence combination of the metalness and roughness files
\* of the resolved pack, the metallic-roughness slot is a synthesized map
\* (neither original requested from the loader), a reference to the one
\* file present, or absent; each other slot is a reference to its own
\* channel file exactly when that file exists.
C3_PackingPolicy ==
    Returned =>
        PackingPolicy([ch \in Channels |-> OnDisk(ConventionFile(last.resolved, ch))],
                      [ch \in Channels |-> ConventionFile(last.resolved, ch)])

\* the same policy, for material names without a '.'
C3_PackingPolicyPlainNames ==
    (Returned /\ desc.name # NameDot) => C3_PackingPolicy

----------------------------------------------------------------------------
(* C5 *)

FatalStatuses == {"NotFound", "DecodeFailure", "DimensionMismatch"}

\* C5: a load call that ends in a fatal error (tier exhaustion, decode
\* failure, dimension mismatch) leaves the material registry exactly as it
\* was before the call.
C5_NoMaterialOnFatalError ==
    [][(last'.n # last.n /\ last'.status \in FatalStatuses)
          => materials' = materials]_vars

\* every call ends either with a material added or with a fatal error
C5_StatusRange == Called => last.status \in FatalStatuses \cup {"ok"}

\* a call that failed on an undecodable file, the registry holding a material
C5_Witness ==
    /\ Called
    /\ last.status = "DecodeFailure"
    /\ materials = <<HostMaterial>>

----------------------------------------------------------------------------
(* C6 *)

\* C6: with negotiation disabled a call probes no tier directory, builds the
\* channel paths from the requested tier, and, when the directory of the
\* requested tier is missing, returns a material whose six slots are absent.
C6_NegotiationDisabled ==
    (Called /\ ~UsedToggle) =>
        /\ \A i \in 1..Len(last.events) : ~IsTierProbe(last.events[i])
        /\ last.resolved = desc
        /\ \A ch \in Channels :
              IsPrefix(Push(MaterialRoot(UsedRoot, desc.subfolder),
                            ConstructedMaterialName(desc.name, desc.resolution)),
                       last.paths[ch])
        /\ ~Exists(TierDir(desc.resolution)) =>
              /\ last.status = "ok"
              /\ Produced.occlusion_texture = NoHandle
              /\ Produced.base_color_texture = NoHandle
              /\ Produced.thickness_texture = NoHandle
              /\ Produced.normal_map_texture = NoHandle
              /\ Produced.metallic_roughness_texture = NoHandle
              /\ CallRequests = <<>>

\* negotiation off, the requested pack missing, a smaller one on disk
C6_Witness ==
    /\ Called /\ ~UsedToggle
    /\ UsedRoot = StrMaterials
    /\ desc.resolution = "FourK"
    /\ ~Exists(TierDir("FourK"))
    /\ Exists(TierDir("TwoK"))
    /\ last.status = "ok"

----------------------------------------------------------------------------
(* C7 *)

\* the channel path the source builds for (name, tier, subfolder, channel)
\* under the current materials root
PathOf(name, tier, subfolder, ch) ==
    ChannelPaths(UsedRoot, Material(name, tier, subfolder, NoVec))[ch]

\* C7: channel path construction is injective: under one materials root no
\* two distinct tuples (name, tier, subfolder, channel), over all names
\* (also with a '.' or a separator), tiers, subfolders and channels, get
\* the same path; in particular the six paths of one material are distinct.
C7_PathsInjective ==
    Returned =>
        \A ch \in Channels :
           \A name \in Names, tier \in Tiers, subfolder \in Subfolders, ch2 \in Channels :
              PathOf(name, tier, subfolder, ch2) = last.paths[ch]
                 => /\ name = last.resolved.name
                    /\ tier = last.resolved.resolution
                    /\ subfolder = last.resolved.subfolder
                    /\ ch2 = ch

\* the same, for material names without a '.'
C7_PathsInjectivePlainNames ==
    (Returned /\ desc.name # NameDot) =>
        \A ch \in Channels :
           \A name \in Names \ {NameDot}, tier \in Tiers, subfolder \in Subfolders,
              ch2 \in Channels :
              PathOf(name, tier, subfolder, ch2) = last.paths[ch]
                 => /\ name = last.resolved.name
                    /\ tier = last.resolved.resolution
                    /\ subfolder = last.resolved.subfolder
                    /\ ch2 = ch

----------------------------------------------------------------------------
(* C8 *)

\* the scale the caller asked for: the descriptor's through load, none
\* through load_without_uv_scale, the argument through load_with_uv_scale
RequestedScale ==
    CASE last.entry = "load" -> desc.uv_scale
      [] last.entry = "load_without_uv_scale" -> NoVec
      [] last.entry = "load_with_uv_scale" -> SomeVec(last.uv_scale)

Identity == Affine2(1, 0, 0, 1, 0, 0)

PureScale(v) == Affine2(v.x, 0, 0, v.y, 0, 0)

\* C8 as claimed: the transform is the identity when no scale is requested
\* and otherwise the pure scale by the requested (x, y), (0, 0) included.
C8_UvTransformAsClaimed ==
    Returned =>
        Produced.uv_transform =
            IF RequestedScale.some THEN PureScale(RequestedScale.val) ELSE Identity

\* C8, amended: the transform is the identity when no scale is requested or
\* the requested scale is (0, 0), and otherwise the pure scale by the
\* requested (x, y); load requests the descriptor's uv_scale and
\* load_with_uv_scale its argument instead of the descriptor's.
C8_UvTransform ==
    Returned =>
        Produced.uv_transform =
            IF RequestedScale.some /\ RequestedScale.val # Vec2(0, 0)
            THEN PureScale(RequestedScale.val) ELSE Identity

\* an explicit scale overriding a different one of the descriptor
C8_Witness ==
    /\ Returned
    /\ last.entry = "load_with_uv_scale"
    /\ desc.uv_scale = SomeVec(Vec2(2, 3))
    /\ last.uv_scale = Vec2(8, 8)
    /\ Produced.uv_transform = PureScale(Vec2(8, 8))

----------------------------------------------------------------------------
(* C9 *)

\* the two files the last call found for synthesis, decoded
RoughSource == FileImage(absolute_resource_path(last.paths["Roughness"]))

MetalSource == FileImage(absolute_resource_path(last.paths["Metalness"]))

\* the call reached the synthesis with two decodable files of different size
SizesDiffer ==
    /\ Called /\ last.status # "NotFound"
    /\ OnDisk(last.paths["Roughness"]) /\ OnDisk(last.paths["Metalness"])
    /\ RoughSource.ok /\ MetalSource.ok
    /\ RoughSource.w # MetalSource.w \/ RoughSource.h # MetalSource.h

\* C9: when the roughness and metalness sources differ in width or height
\* the call fails with the dimension-mismatch error having allocated no
\* output image and written no pixel, and registers no combined map.
C9_MismatchBeforeWrite ==
    SizesDiffer =>
        /\ last.status = "DimensionMismatch"
        /\ \A i \in 1..Len(last.events) :
              last.events[i].op \notin {"alloc", "put", "add_image", "add_material"}
        /\ CallImages = <<>>

\* equal widths, different heights: the second assertion is the one failing
C9_Witness ==
    /\ SizesDiffer
    /\ RoughSource.w = MetalSource.w
    /\ last.status = "DimensionMismatch"
    /\ last.events[Len(last.events)].op = "decode"

----------------------------------------------------------------------------
(* C10 *)

\* C10: a successful negotiation returns the descriptor with only the tier
\* possibly changed, returns it unchanged when its own directory exists,
\* and negotiating its result again returns that result.
C10_OnlyTierChanges ==
    (Called /\ UsedToggle /\ last.status # "NotFound") =>
        /\ last.resolved.name = desc.name
        /\ last.resolved.subfolder = desc.subfolder
        /\ last.resolved.uv_scale = desc.uv_scale
        /\ Exists(TierDir(desc.resolution)) => last.resolved = desc
        /\ LET again == negotiate_resolution(
                            last.resolved,
                            MaterialRoot(UsedRoot, desc.subfolder))
           IN again.ok /\ again.val = last.resolved /\ Len(again.events) = 1

\* a descent that carried a subfolder or a uv_scale along
C10_Witness ==
    /\ Called /\ UsedToggle /\ last.status = "ok"
    /\ desc.uv_scale = SomeVec(Vec2(2, 3))
    /\ desc.resolution = "FourK"
    /\ last.resolved.resolution = "OneK"

----------------------------------------------------------------------------
(* Vocabulary of the properties of the threads *)

Finished == {"done", "panicked"}

\* a load call of thread p has read the materials root / the toggle
HasReadPath(p) ==
    op[p].kind = "load"
        /\ pc[p] \in {"l_lock_toggle", "l_read_toggle", "l_rest"} \cup Finished

HasReadToggle(p) == op[p].kind = "load" /\ pc[p] \in {"l_rest"} \cup Finished

\* the value thread w's build writes; 0 stands for LazyLock's initial value
WrittenPath(w) == IF w = 0 THEN StrMaterials ELSE op[w].config.materials_path

WrittenToggle(w) == IF w = 0 THEN TRUE ELSE op[w].config.resolution_negotiation

----------------------------------------------------------------------------
(* C11 *)

\* C11 as claimed: a load call that reads a value once a build has completed
\* reads the value which the most recently completed build wrote; before any
\* build has been called, it reads "materials" and true.
C11_LastCompletedBuild ==
    \A p \in Procs :
       /\ HasReadPath(p) =>
             /\ local[p].path_built # 0 =>
                   local[p].materials_path = WrittenPath(local[p].path_built)
             /\ (local[p].path_built = 0 /\ local[p].path_quiet) =>
                   local[p].materials_path = StrMaterials
       /\ HasReadToggle(p) =>
             /\ local[p].toggle_built # 0 =>
                   local[p].resolution_negotiation = WrittenToggle(local[p].toggle_built)
             /\ (local[p].toggle_built = 0 /\ local[p].toggle_quiet) =>
                   local[p].resolution_negotiation = TRUE

\* C11: each of the two values a load call reads is the value most recently
\* written to that static, by a build that may not have completed, or the
\* initial default ("materials", true) if no build has written it yet; when
\* the builds ran one after the other and none is running at the read, that
\* is the value of the most recently completed build.
C11_LastWriterWins ==
    \A p \in Procs :
       /\ HasReadPath(p) =>
             /\ local[p].materials_path = WrittenPath(local[p].path_writer)
             /\ local[p].path_quiet => local[p].path_writer = local[p].path_built
       /\ HasReadToggle(p) =>
             /\ local[p].resolution_negotiation = WrittenToggle(local[p].toggle_writer)
             /\ local[p].toggle_quiet => local[p].toggle_writer = local[p].toggle_built

\* two builds have overlapped and completed, and a load call made after both
\* has read the materials root of the one that completed first
C11_Witness ==
    \E p \in Procs :
       /\ HasReadToggle(p) /\ pc[p] \in Finished
       /\ \A q \in Procs \ {p} : op[q].kind = "build" /\ pc[q] = "done"
       /\ local[p].path_built # 0
       /\ local[p].path_writer # local[p].path_built
       /\ local[p].materials_path # WrittenPath(local[p].path_built)
       /\ local[p].toggle_writer = local[p].toggle_built

----------------------------------------------------------------------------
(* C12 *)

\* the directory-existence checks of the last call, in order
TierProbes == SelectSeq(last.events, IsTierProbe)

\* C12: with negotiation enabled, a call whose requested tier is the k-th
\* (1K = 1 ... 16K = 6) makes at most k directory-existence checks, no two of
\* them of the same directory, and its negotiation ends either with a
\* descriptor whose directory exists or with the tier-exhausted error.
C12_BoundedDescent ==
    (Called /\ UsedToggle) =>
        /\ Len(TierProbes) >= 1
        /\ Len(TierProbes) <= TierRank(desc.resolution)
        /\ \A i, j \in 1..Len(TierProbes) : i # j => TierProbes[i] # TierProbes[j]
        /\ \/ last.status = "NotFound"
           \/ /\ last.status \in {"ok", "DecodeFailure", "DimensionMismatch"}
              /\ Exists(absolute_resource_path(
                     ResourcePath(last.resolved,
                                  MaterialRoot(UsedRoot, desc.subfolder))))

\* the bound is reached: 16K requested, six directories checked, none there
C12_Witness ==
    /\ Called /\ UsedToggle
    /\ desc.resolution = "SixteenK"
    /\ Len(TierProbes) = 6
    /\ last.status = "NotFound"

----------------------------------------------------------------------------
(* C13 *)

\* thread p holds the guard of Mutex m
Holds(p, m) == locks[m] = p

\* thread p is at a lock() of the materials-path Mutex
WantsPath(p) == pc[p] \in {"d_lock_path", "b_lock_path", "l_lock_path"}

\* thread p is at a lock() of the negotiation-toggle Mutex
WantsToggle(p) == pc[p] \in {"d_lock_toggle", "b_lock_toggle", "l_lock_toggle"}

\* thread p can take its next step: it is not waiting for a guard another
\* thread holds
CanStep(p) ==
    /\ pc[p] \notin Finished
    /\ pc[p] = "idle" => \E kind \in Kinds \ {"load"} : MayBegin(p, kind)
    /\ WantsPath(p) => locks["MATERIALS_PATH"] = 0
    /\ WantsToggle(p) => locks["RESOLUTION_NEGOTIATION"] = 0

\* C13: whatever the interleaving of default, build and load calls, some
\* call can take a step as long as one is unfinished; a thread holds both
\* guards only in default, which took the materials-path guard first, and no
\* thread asks for the materials-path guard while holding the toggle guard; a
\* load call about to run its fallible part, and one that failed, holds no
\* guard; no Mutex is ever poisoned, so no lock().unwrap() of a later call
\* panics.
C13_LocksSafe ==
    /\ (\E p \in Procs : pc[p] \notin Finished) => \E p \in Procs : CanStep(p)
    /\ \A p \in Procs :
          /\ (Holds(p, "MATERIALS_PATH") /\ Holds(p, "RESOLUTION_NEGOTIATION")) =>
                op[p].kind = "default" /\ pc[p] = "d_return"
          /\ WantsPath(p) => ~Holds(p, "RESOLUTION_NEGOTIATION")
          /\ (op[p].kind = "load" /\ pc[p] \in {"l_rest", "panicked"}) =>
                \A m \in Mutexes : ~Holds(p, m)
          /\ pc[p] = "panicked" => op[p].kind = "load"
    /\ \A m \in Mutexes : ~poisoned[m]

\* a load call has failed fatally while a default call holds both guards and
\* a build call waits for the first of them
C13_Witness ==
    \E p, q, r \in Procs :
       /\ op[p].kind = "load" /\ pc[p] = "panicked"
       /\ last.status = "DimensionMismatch"
       /\ op[q].kind = "default" /\ pc[q] = "d_return"
       /\ Holds(q, "MATERIALS_PATH") /\ Holds(q, "RESOLUTION_NEGOTIATION")
       /\ op[r].kind = "build" /\ pc[r] = "b_lock_path"

----------------------------------------------------------------------------
(* C14 *)

\* a load or default call of thread p has read both statics
ReadBoth(p) ==
    HasReadToggle(p) \/ (op[p].kind = "default" /\ pc[p] \in {"d_release", "done"})

\* the pair it read
Snapshot(p) == Config(local[p].materials_path, local[p].resolution_negotiation)

\* the configurations of the build calls made so far
BuiltConfigs == {op[q].config : q \in {r \in Procs : op[r].kind = "build"}}

\* C14 as claimed: the pair a load or default call reads is the initial
\* defaults or the pair of one single build call.
C14_ConsistentSnapshot ==
    \A p \in Procs :
       ReadBoth(p) => Snapshot(p) \in {Config(StrMaterials, TRUE)} \cup BuiltConfigs

\* C14: each of the two values a load or default call reads is, on its own,
\* the initial default or the value some build call wrote; the pair is the
\* defaults or the pair of the most recently completed build when the build
\* calls ran one after the other, none was running at either read and none
\* completed between the two reads.
C14_SnapshotPerValue ==
    \A p \in Procs :
       ReadBoth(p) =>
          /\ local[p].materials_path \in
                {StrMaterials} \cup {c.materials_path : c \in BuiltConfigs}
          /\ local[p].resolution_negotiation \in
                {TRUE} \cup {c.resolution_negotiation : c \in BuiltConfigs}
          /\ (/\ local[p].path_quiet /\ local[p].toggle_quiet
              /\ local[p].path_built = local[p].toggle_built) =>
                Snapshot(p) = Config(WrittenPath(local[p].path_built),
                                     WrittenToggle(local[p].path_built))

\* a load call made after a build has completed has read that build's pair,
\* and a default call that ran during the build has read the build's
\* materials path with the initial toggle
C14_Witness ==
    \E p, q, b \in Procs :
       /\ op[b].kind = "build" /\ op[b].config = Config(StrM, FALSE)
       /\ op[p].kind = "load" /\ ReadBoth(p)
       /\ local[p].path_quiet /\ local[p].toggle_quiet
       /\ local[p].path_built = b /\ local[p].toggle_built = b
       /\ Snapshot(p) = op[b].config
       /\ op[q].kind = "default" /\ ReadBoth(q)
       /\ Snapshot(q) = Config(StrM, TRUE)
====
